---- MODULE Spec2Model ----
(***************************************************************************)
(* Reference completion of ra_analysis: completions() classifies a name    *)
(* reference by its ancestor chain and fills a Completions accumulator     *)
(* from the function's scopes, the keyword/snippet generator, the module   *)
(* scope or a resolved path.  The semantic database answers the cancelable *)
(* queries; every `?` in the source is a point where the call may return   *)
(* the cancellation outcome.                                               *)
(***************************************************************************)
EXTENDS Integers, Sequences, FiniteSets, TLC

VARIABLES
    tree,       \* name_ref.syntax().ancestors(): the name reference first, the file root last
    path,       \* what Path::from_ast(segment.parent_path()) returned
    qualifier,  \* whether segment.parent_path().qualifier() is Some
    scopes,     \* FnScopes::new(fn_def): the scope chain at name_ref (innermost first) and self_param
    if_expr,    \* what find_node_at_offset::<ast::IfExpr>(file, start - 2) returned
    kind,       \* what classify_name_ref returned
    pc,         \* where the call to completions stands
    acc,        \* the Completions accumulator
    queries,    \* the database queries issued so far, each with its reply
    result      \* the Cancelable<()> completions returned

vars == <<tree, path, qualifier, scopes, if_expr, kind, pc, acc, queries, result>>

----------------------------------------------------------------------------
(* Bounds *)

\* Most syntax nodes between the name reference and the file root.
MaxDepth == 6

\* Most scopes in a function's scope chain.
MaxScopes == 2

----------------------------------------------------------------------------
(* Option<T>, TextRange *)

None == <<>>

Some(v) == <<v>>

Unwrap(o) == o[1]

TextRange(s, e) == [start |-> s, end |-> e]

\* a.is_subrange(&b): a lies within b.
is_subrange(a, b) == b.start <= a.start /\ a.end <= b.end

----------------------------------------------------------------------------
(* Syntax trees, as the chain of ancestors of the name reference *)

\* Where the name reference starts: far enough from offset 0 for MaxDepth
\* enclosing nodes that each begin one unit earlier.
NameStart == MaxDepth + 3

NameRange == TextRange(NameStart, NameStart + 2)

FileRange == TextRange(0, NameStart + 2 + 3 * (MaxDepth + 1))

Node(k, r, b, t) == [kind |-> k, range |-> r, body |-> b, ret_type |-> t]

Same(r) == r

Wider(r) == TextRange(r.start - 1, r.end + 1)

\* A node that starts before its child and ends with it (`a.name`, `for x in name`).
Before(r) == TextRange(r.start - 1, r.end)

\* A loop whose condition holds the child and whose body follows it.
WithBodyAfter(r) == TextRange(r.start - 1, r.end + 3)

BodyAfter(r) == TextRange(r.end + 1, r.end + 3)

NameRefNode == Node("NAME_REF", NameRange, None, FALSE)

SourceFile == Node("SOURCE_FILE", FileRange, None, FALSE)

\* The parents an expression can have.
ExprParents(r) ==
    { Node("EXPR_STMT", Wider(r), None, FALSE),
      Node("BLOCK", Wider(r), None, FALSE),
      Node("LAMBDA_EXPR", Wider(r), None, FALSE) }

\* The loops that hold an expression as condition or iterable: a while
\* loop with its body after it, a for loop whose body is not written yet.
LoopHeads(r) ==
    { Node("WHILE_EXPR", WithBodyAfter(r), Some(BodyAfter(r)), FALSE),
      Node("FOR_EXPR", Before(r), None, FALSE) }

ItemParents(r) ==
    { SourceFile,
      Node("ITEM_LIST", Wider(r), None, FALSE),
      Node("BLOCK", Wider(r), None, FALSE) }

\* The nodes the grammar allows directly above node n.  PATH_SEGMENT stands
\* for the run PATH_SEGMENT, PATH, PATH_EXPR (or MACRO_CALL) of one range;
\* BLOCK stands for any node the code does not tell apart by kind.
Parents(n) ==
    LET r == n.range IN
    CASE n.kind = "NAME_REF" ->
           { Node("PATH_SEGMENT", Same(r), None, FALSE),
             Node("FIELD_EXPR", Before(r), None, FALSE) }
      [] n.kind = "PATH_SEGMENT" ->
           ExprParents(r) \cup LoopHeads(r)
           \cup { Node("EXPR_STMT", Same(r), None, FALSE),
                  Node("ITEM_LIST", Wider(r), None, FALSE),
                  SourceFile }
      [] n.kind = "FIELD_EXPR" ->
           ExprParents(r) \cup LoopHeads(r)
      [] n.kind \in {"LAMBDA_EXPR", "LOOP_EXPR", "WHILE_EXPR", "FOR_EXPR"} ->
           ExprParents(r)
      [] n.kind = "EXPR_STMT" ->
           { Node("BLOCK", Wider(r), None, FALSE) }
      [] n.kind = "BLOCK" ->
           { Node("LOOP_EXPR", Before(r), Some(r), FALSE),
             Node("FN_DEF", Before(r), None, TRUE),
             Node("FN_DEF", Before(r), None, FALSE),
             Node("ITEM_LIST", Wider(r), None, FALSE),
             SourceFile }
      [] n.kind = "FN_DEF" -> ItemParents(r)
      [] n.kind = "ITEM_LIST" -> { Node("MODULE", Before(r), None, FALSE) }
      [] n.kind = "MODULE" -> ItemParents(r)
      [] OTHER -> {}

RECURSIVE Ancestries(_, _)
\* Every ancestor chain that extends chain by at most d nodes before the file root.
Ancestries(chain, d) ==
    LET top == chain[Len(chain)] IN
    IF top.kind = "SOURCE_FILE" THEN {chain}
    ELSE UNION { Ancestries(Append(chain, p), d - 1) :
                    p \in {q \in Parents(top) : d > 0 \/ q.kind = "SOURCE_FILE"} }

Trees == Ancestries(<<NameRefNode>>, MaxDepth)

----------------------------------------------------------------------------
(* hir::Path *)

SegmentNames == <<"a", "b", "c", "d">>

\* Most segments of a path.
MaxSegs == 3

Path(k, n) == [kind |-> k, segments |-> SubSeq(SegmentNames, 1, n)]

\* The paths Path::from_ast can hand to the completion: a::b::c and its
\* prefixes, the empty remainder included, and the rooted ::a.
Paths == { Path("Plain", n) : n \in 0..MaxSegs } \cup { Path("Abs", 1) }

\* Path::is_ident: a plain path of one segment.
is_ident(p) == p.kind = "Plain" /\ Len(p.segments) = 1

\* The (Path::from_ast result, qualifier().is_some()) pairs a path segment's
\* parent path can give: a path with a qualifier has at least two segments.
PathShapes ==
    { <<None, q>> : q \in BOOLEAN }
    \cup { <<Some(p), FALSE>> : p \in Paths }
    \cup { <<Some(p), TRUE>> : p \in {x \in Paths : Len(x.segments) >= 2} }

----------------------------------------------------------------------------
(* classify_name_ref *)

\* name_ref.syntax().ancestors().take_while(|it| it.range() == name_range).last():
\* the index of the outermost node of the reference's own range.
RECURSIVE top_node(_, _)
top_node(t, i) ==
    IF i < Len(t) /\ t[i + 1].range = t[1].range THEN top_node(t, i + 1) ELSE i

\* top_node.parent().map(|it| it.kind())
top_parent_kind(t) ==
    LET i == top_node(t, 1) IN IF i < Len(t) THEN Some(t[i + 1].kind) ELSE None

\* ancestors().take_while(kind != SOURCE_FILE && kind != MODULE).find_map(FnDef::cast),
\* from node i on: the index of the function definition found.
RECURSIVE enclosing_fn_from(_, _)
enclosing_fn_from(t, i) ==
    IF i > Len(t) \/ t[i].kind \in {"SOURCE_FILE", "MODULE"} THEN None
    ELSE IF t[i].kind = "FN_DEF" THEN Some(i)
    ELSE enclosing_fn_from(t, i + 1)

RECURSIVE any_fn_from(_, _)
any_fn_from(t, i) ==
    IF i > Len(t) THEN None
    ELSE IF t[i].kind = "FN_DEF" THEN Some(i)
    ELSE any_fn_from(t, i + 1)

\* enclosing_fn without the take_while: the walk goes on through modules.
enclosing_fn_across_modules(t) == any_fn_from(t, 1)

enclosing_fn(t) == enclosing_fn_from(t, 1)

LocalRef(f) == [tag |-> "LocalRef", enclosing_fn |-> f, path |-> None]

PathKind(p) == [tag |-> "Path", enclosing_fn |-> None, path |-> Some(p)]

BareIdentInMod == [tag |-> "BareIdentInMod", enclosing_fn |-> None, path |-> None]

\* classify_name_ref with the test for an item position made last.
classify_segment_first(t, p, q) ==
    IF Len(t) >= 2 /\ t[2].kind = "PATH_SEGMENT" /\ p # None /\ ~is_ident(Unwrap(p))
    THEN Some(PathKind(Unwrap(p)))
    ELSE IF Len(t) >= 2 /\ t[2].kind = "PATH_SEGMENT" /\ ~q
    THEN Some(LocalRef(enclosing_fn(t)))
    ELSE IF top_parent_kind(t) \in {Some("SOURCE_FILE"), Some("ITEM_LIST")}
    THEN Some(BareIdentInMod)
    ELSE None

\* classify_name_ref, given what Path::from_ast and qualifier() give for the
\* parent path of the reference's segment.
classify_name_ref(t, p, q) ==
    IF top_parent_kind(t) \in {Some("SOURCE_FILE"), Some("ITEM_LIST")}
    THEN Some(BareIdentInMod)
    ELSE IF Len(t) < 2 THEN None
    ELSE IF t[2].kind = "PATH_SEGMENT"
    THEN IF p # None /\ ~is_ident(Unwrap(p)) THEN Some(PathKind(Unwrap(p)))
         ELSE IF ~q THEN Some(LocalRef(enclosing_fn(t)))
         ELSE None
    ELSE None

----------------------------------------------------------------------------
(* CompletionItem *)

Item(label, lookup, snippet) == [label |-> label, lookup |-> lookup, snippet |-> snippet]

\* CompletionItem::new(label)
NewItem(label) == Item(label, None, None)

keyword(kw, snippet) == Item(kw, None, Some(snippet))

RECURSIVE MapItems(_)
\* One CompletionItem::new(name) per name, in order.
MapItems(names) ==
    IF names = <<>> THEN <<>> ELSE <<NewItem(Head(names))>> \o MapItems(Tail(names))

----------------------------------------------------------------------------
(* complete_fn *)

Names == {"x", "y"}

\* The entries one scope can hold, in declaration order.
ScopeEntries == { <<"x">>, <<"y", "x">> }

RECURSIVE SeqsUpTo(_, _)
SeqsUpTo(S, n) ==
    IF n = 0 THEN {<<>>}
    ELSE LET shorter == SeqsUpTo(S, n - 1)
         IN shorter \cup { Append(s, e) : s \in {z \in shorter : Len(z) = n - 1}, e \in S }

\* What FnScopes gives for the reference: scope_chain(name_ref) with each
\* scope's entries, and whether the function has a self parameter.
FnScopes ==
    { [chain |-> c, self_param |-> s] : c \in SeqsUpTo(ScopeEntries, MaxScopes), s \in BOOLEAN }

RECURSIVE flat_map(_)
\* scope_chain(..).flat_map(|scope| scopes.entries(scope).iter())
flat_map(chain) == IF chain = <<>> THEN <<>> ELSE Head(chain) \o flat_map(Tail(chain))

\* The chain walk without the shadowed set: every entry passes.
shadow_filter_off(entries, shadowed) == entries

RECURSIVE shadow_filter(_, _)
\* .filter(|entry| shadowed.insert(entry.name())): keeps an entry when its
\* name was not in the set yet.
shadow_filter(entries, shadowed) ==
    IF entries = <<>> THEN <<>>
    ELSE IF Head(entries) \in shadowed THEN shadow_filter(Tail(entries), shadowed)
    ELSE <<Head(entries)>> \o shadow_filter(Tail(entries), shadowed \cup {Head(entries)})

complete_fn(sc) ==
    MapItems(shadow_filter(flat_map(sc.chain), {}))
    \o (IF sc.self_param THEN <<NewItem("self")>> ELSE <<>>)

----------------------------------------------------------------------------
(* complete_expr_keywords, complete_expr_snippets, complete_mod_item_snippets *)

\* The results find_node_at_offset::<ast::IfExpr>(file, start - 2) can have:
\* no if expression there, one that ends before the reference starts, one
\* that ends where the reference starts.
IfExprs ==
    { None,
      Some(TextRange(NameStart - 3, NameStart - 1)),
      Some(TextRange(NameStart - 3, NameStart)) }

RECURSIVE in_loop_body_from(_, _)
in_loop_body_from(t, i) ==
    IF i > Len(t) \/ t[i].kind \in {"FN_DEF", "LAMBDA_EXPR"} THEN FALSE
    ELSE IF /\ t[i].kind \in {"FOR_EXPR", "WHILE_EXPR", "LOOP_EXPR"}
            /\ t[i].body # None
            /\ is_subrange(t[1].range, Unwrap(t[i].body))
    THEN TRUE
    ELSE in_loop_body_from(t, i + 1)

RECURSIVE in_loop_body_through_lambda(_, _)
in_loop_body_through_lambda(t, i) ==
    IF i > Len(t) \/ t[i].kind = "FN_DEF" THEN FALSE
    ELSE IF /\ t[i].kind \in {"FOR_EXPR", "WHILE_EXPR", "LOOP_EXPR"}
            /\ t[i].body # None
            /\ is_subrange(t[1].range, Unwrap(t[i].body))
    THEN TRUE
    ELSE in_loop_body_through_lambda(t, i + 1)

\* is_in_loop_body that does not stop at a closure.
is_in_loop_body_past_closures(t) == in_loop_body_through_lambda(t, 1)

is_in_loop_body(t) == in_loop_body_from(t, 1)

\* ancestors().filter_map(ast::ExprStmt::cast).next(): the index of the
\* nearest expression statement.
RECURSIVE expr_stmt_from(_, _)
expr_stmt_from(t, i) ==
    IF i > Len(t) THEN None
    ELSE IF t[i].kind = "EXPR_STMT" THEN Some(i)
    ELSE expr_stmt_from(t, i + 1)

is_stmt(t) ==
    LET s == expr_stmt_from(t, 1)
    IN IF s = None THEN FALSE ELSE t[Unwrap(s)].range = t[1].range

\* return_snippet with the two middle arms of the match exchanged.
return_snippet_swapped(stmt, ret) ==
    CASE stmt /\ ret -> "return $0;"
      [] stmt /\ ~ret -> "return $0"
      [] ~stmt /\ ret -> "return;"
      [] OTHER -> "return"

return_snippet(stmt, ret) ==
    CASE stmt /\ ret -> "return $0;"
      [] stmt /\ ~ret -> "return;"
      [] ~stmt /\ ret -> "return $0"
      [] OTHER -> "return"

complete_return(fn_def, t) == Some(keyword("return", return_snippet(is_stmt(t), fn_def.ret_type)))

complete_expr_keywords(t, fn_def, ife) ==
    << keyword("if", "if $0 {}"),
       keyword("match", "match $0 {}"),
       keyword("while", "while $0 {}"),
       keyword("loop", "loop {$0}") >>
    \o (IF /\ t[1].range.start - 2 >= 0
           /\ ife # None
           /\ Unwrap(ife).end < t[1].range.start
        THEN << keyword("else", "else {$0}"), keyword("else if", "else if $0 {}") >>
        ELSE <<>>)
    \o (IF is_in_loop_body(t)
        THEN << keyword("continue", "continue"), keyword("break", "break") >>
        ELSE <<>>)
    \o complete_return(fn_def, t)

complete_expr_snippets ==
    << Item("pd", None, Some("eprintln!(\"$0 = {:?}\", $0);")),
       Item("ppd", None, Some("eprintln!(\"$0 = {:#?}\", $0);")) >>

complete_mod_item_snippets ==
    << Item("Test function", Some("tfn"), Some("#[test]\nfn ${1:feature}() {\n    $0\n}")),
       Item("pub(crate)", None, Some("pub(crate) $0")) >>

----------------------------------------------------------------------------
(* The semantic database *)

Pending == [status |-> "Pending", value |-> None]

Canceled == [status |-> "Canceled", value |-> None]

Ok(v) == [status |-> "Ok", value |-> Some(v)]

Query(q, arg) == [q |-> q, arg |-> arg, reply |-> Pending]

\* The import ranges a module entry can carry, by how they lie to the
\* reference: the same range, around it, within it, apart from it.
ImportRanges ==
    { NameRange,
      Wider(NameRange),
      TextRange(NameStart, NameStart + 1),
      TextRange(0, 1) }

Resolution(name, import) == [name |-> name, import |-> import]

Resolutions(name) ==
    { Resolution(name, None) } \cup { Resolution(name, Some(r)) : r \in ImportRanges }

\* The ModuleScope values a scope query can return: entries() in order, x
\* with or without an import, y brought in by no import, either or both.
ModuleScopes ==
    LET xs == {<<>>} \cup { <<e>> : e \in Resolutions("x") }
    IN xs \cup { Append(s, Resolution("y", None)) : s \in xs }

DefModule == [tag |-> "Module", module |-> "target_module"]

DefFunction == [tag |-> "Function", module |-> "none"]

IsErr(reply) == reply.status = "Canceled"

\* `expr?` that turns the error into a successful return.
try_swallowed(reply) == "Ok"

\* `expr?` on an Err reply: the function returns that error at once.
try(reply) == reply.status

Last(s) == s[Len(s)]

\* The query log with the reply to the query in flight filled in.
Replied(log, reply) == [log EXCEPT ![Len(log)].reply = reply]

----------------------------------------------------------------------------
(* completions *)

\* The filter of module entries in the LocalRef branch.
expose(res, name_range) ==
    IF res.import = None THEN TRUE
    ELSE ~is_subrange(Unwrap(res.import), name_range)

RECURSIVE entry_names(_, _)
\* The names of the entries of a module scope that pass the filter, in order.
entry_names(entries, name_range) ==
    IF entries = <<>> THEN <<>>
    ELSE (IF expose(Head(entries), name_range) THEN <<Head(entries).name>> ELSE <<>>)
         \o entry_names(Tail(entries), name_range)

RECURSIVE all_names(_)
\* The names of all entries of a module scope, in order.
all_names(entries) ==
    IF entries = <<>> THEN <<>> ELSE <<Head(entries).name>> \o all_names(Tail(entries))

\* The match on the resolved definition with every definition taken for a module.
is_module_always(def) == TRUE

\* Def::Module(it) => it, as opposed to `_ => return Ok(())`
is_module(def) == def.tag = "Module"

\* What the LocalRef branch adds for the enclosing function fn_def:
\* complete_fn, complete_expr_keywords, complete_expr_snippets.
local_items(t, fn_def, sc, ife) ==
    complete_fn(sc) \o complete_expr_keywords(t, fn_def, ife) \o complete_expr_snippets

\* complete_path without the pop: the whole path goes to resolve_path.
pop_nothing(p) == p

\* path.segments.pop()
pop(p) == [p EXCEPT !.segments = SubSeq(p.segments, 1, Len(p.segments) - 1)]

\* What the parent path of the reference's segment gives when classify_name_ref reads it.
ShapesRead(t) ==
    IF /\ top_parent_kind(t) \notin {Some("SOURCE_FILE"), Some("ITEM_LIST")}
       /\ Len(t) >= 2
       /\ t[2].kind = "PATH_SEGMENT"
    THEN PathShapes
    ELSE { <<None, FALSE>> }

Return(r) ==
    /\ pc' = "done"
    /\ result' = r

\* classify_name_ref returns None: completions returns Ok(()).
CompletionsUnclassified ==
    /\ pc = "start"
    /\ \E shape \in ShapesRead(tree) :
          /\ classify_name_ref(tree, shape[1], shape[2]) = None
          /\ path' = shape[1]
          /\ qualifier' = shape[2]
          /\ kind' = None
    /\ Return("Ok")
    /\ UNCHANGED <<tree, scopes, if_expr, acc, queries>>

\* NameRefKind::LocalRef, up to the module.scope(db) query.
CompletionsLocalRef ==
    /\ pc = "start"
    /\ \E shape \in ShapesRead(tree) :
          LET k == classify_name_ref(tree, shape[1], shape[2]) IN
          /\ k # None
          /\ Unwrap(k).tag = "LocalRef"
          /\ path' = shape[1]
          /\ qualifier' = shape[2]
          /\ kind' = k
          /\ IF Unwrap(k).enclosing_fn # None
             THEN \E sc \in FnScopes, ife \in IfExprs :
                    /\ scopes' = Some(sc)
                    /\ if_expr' = ife
                    /\ acc' = acc \o local_items(
                                        tree, tree[Unwrap(Unwrap(k).enclosing_fn)], sc, ife)
             ELSE UNCHANGED <<scopes, if_expr, acc>>
    /\ queries' = Append(queries, Query("module.scope", "module"))
    /\ pc' = "module.scope"
    /\ UNCHANGED <<tree, result>>

\* module.scope(db)? returns in the LocalRef branch.
ModuleScopeReply ==
    /\ pc = "module.scope"
    /\ \E reply \in {Canceled} \cup { Ok(m) : m \in ModuleScopes } :
          /\ queries' = Replied(queries, reply)
          /\ IF IsErr(reply)
             THEN /\ Return(try(reply))
                  /\ UNCHANGED acc
             ELSE /\ acc' = acc \o MapItems(entry_names(Unwrap(reply.value), tree[1].range))
                  /\ Return("Ok")
    /\ UNCHANGED <<tree, path, qualifier, scopes, if_expr, kind>>

\* NameRefKind::Path: complete_path up to the module.resolve_path(db, path) query.
CompletionsPath ==
    /\ pc = "start"
    /\ \E shape \in ShapesRead(tree) :
          LET k == classify_name_ref(tree, shape[1], shape[2]) IN
          /\ k # None
          /\ Unwrap(k).tag = "Path"
          /\ path' = shape[1]
          /\ qualifier' = shape[2]
          /\ kind' = k
          /\ IF Unwrap(Unwrap(k).path).segments = <<>>
             THEN /\ Return("Ok")
                  /\ UNCHANGED queries
             ELSE /\ queries' = Append(queries, Query("resolve_path", pop(Unwrap(Unwrap(k).path))))
                  /\ pc' = "resolve_path"
                  /\ UNCHANGED result
    /\ UNCHANGED <<tree, scopes, if_expr, acc>>

\* module.resolve_path(db, path)? returns.
ResolvePathReply ==
    /\ pc = "resolve_path"
    /\ \E reply \in {Canceled, Ok(None), Ok(Some("def_id"))} :
          IF IsErr(reply)
          THEN /\ queries' = Replied(queries, reply)
               /\ Return(try(reply))
          ELSE IF Unwrap(reply.value) = None
          THEN /\ queries' = Replied(queries, reply)
               /\ Return("Ok")
          ELSE /\ queries' = Append(Replied(queries, reply),
                                    Query("def_id.resolve", Unwrap(Unwrap(reply.value))))
               /\ pc' = "def_id.resolve"
               /\ UNCHANGED result
    /\ UNCHANGED <<tree, path, qualifier, scopes, if_expr, kind, acc>>

\* def_id.resolve(db)? returns.
DefResolveReply ==
    /\ pc = "def_id.resolve"
    /\ \E reply \in {Canceled, Ok(DefModule), Ok(DefFunction)} :
          IF IsErr(reply)
          THEN /\ queries' = Replied(queries, reply)
               /\ Return(try(reply))
          ELSE IF ~is_module(Unwrap(reply.value))
          THEN /\ queries' = Replied(queries, reply)
               /\ Return("Ok")
          ELSE /\ queries' = Append(Replied(queries, reply),
                                    Query("module.scope", Unwrap(reply.value).module))
               /\ pc' = "target_module.scope"
               /\ UNCHANGED result
    /\ UNCHANGED <<tree, path, qualifier, scopes, if_expr, kind, acc>>

\* target_module.scope(db)? returns.
TargetScopeReply ==
    /\ pc = "target_module.scope"
    /\ \E reply \in {Canceled} \cup { Ok(m) : m \in ModuleScopes } :
          /\ queries' = Replied(queries, reply)
          /\ IF IsErr(reply)
             THEN /\ Return(try(reply))
                  /\ UNCHANGED acc
             ELSE /\ acc' = acc \o MapItems(all_names(Unwrap(reply.value)))
                  /\ Return("Ok")
    /\ UNCHANGED <<tree, path, qualifier, scopes, if_expr, kind>>

\* NameRefKind::BareIdentInMod
CompletionsBareIdentInMod ==
    /\ pc = "start"
    /\ classify_name_ref(tree, None, FALSE) = Some(BareIdentInMod)
    /\ kind' = Some(BareIdentInMod)
    /\ acc' = IF top_parent_kind(tree) \in {Some("SOURCE_FILE"), Some("ITEM_LIST")}
              THEN acc \o complete_mod_item_snippets
              ELSE acc
    /\ Return("Ok")
    /\ UNCHANGED <<tree, path, qualifier, scopes, if_expr, queries>>

Init ==
    /\ tree \in Trees
    /\ path = None
    /\ qualifier = FALSE
    /\ scopes = None
    /\ if_expr = None
    /\ kind = None
    /\ pc = "start"
    /\ acc = <<>>
    /\ queries = <<>>
    /\ result = "running"

Next ==
    \/ CompletionsUnclassified
    \/ CompletionsLocalRef
    \/ ModuleScopeReply
    \/ CompletionsPath
    \/ ResolvePathReply
    \/ DefResolveReply
    \/ TargetScopeReply
    \/ CompletionsBareIdentInMod

Spec == Init /\ [][Next]_vars

----------------------------------------------------------------------------
(* Properties *)

Count(items, label) == Cardinality({ i \in DOMAIN items : items[i].label = label })

Labels(items) == [i \in DOMAIN items |-> items[i].label]

EntryNames(entries) == [i \in DOMAIN entries |-> entries[i].name]

\* a lies within b, start and end included.
Within(a, b) == b.start <= a.start /\ a.end <= b.end

IsLocalRef == kind # None /\ Unwrap(kind).tag = "LocalRef"

IsPath == kind # None /\ Unwrap(kind).tag = "Path"

InFunction == IsLocalRef /\ Unwrap(kind).enclosing_fn # None

FnDef == tree[Unwrap(Unwrap(kind).enclosing_fn)]

FnDefAncestors == { i \in DOMAIN tree : tree[i].kind = "FN_DEF" }

Min(S) == CHOOSE m \in S : \A n \in S : m <= n

\* What the call wrote before its first query.
WrittenBeforeQuery ==
    IF scopes # None THEN local_items(tree, FnDef, Unwrap(scopes), if_expr) ELSE <<>>

\* What the call wrote from the function's scopes, keywords and snippets.
LocalPart == SubSeq(acc, 1, Len(WrittenBeforeQuery))

\* What the call wrote after the module.scope query of the LocalRef branch.
ModulePart == SubSeq(acc, Len(WrittenBeforeQuery) + 1, Len(acc))

\* The entries the last query returned.
ScopeReturned == Unwrap(Last(queries).reply.value)

\* C1: a query that reports cancellation is the last query of the call, the
\* call returns the cancellation outcome, and the accumulator holds what it
\* held when that query was issued.
C1_CancellationPropagates ==
    \A i \in DOMAIN queries :
        queries[i].reply.status = "Canceled" =>
            /\ i = Len(queries)
            /\ pc = "done"
            /\ result = "Canceled"
            /\ acc = WrittenBeforeQuery

C1_Witness ==
    /\ result = "Canceled"
    /\ Len(queries) = 3
    /\ queries[3].q = "module.scope"
    /\ queries[3].reply.status = "Canceled"

\* C2: a call that returns cancellation has appended no item to the accumulator.
C2_NoPartialCandidates == result = "Canceled" => acc = <<>>

\* C3: classification None, a path of zero segments, a prefix that resolves
\* to nothing and a prefix that resolves to a non-module all end the call
\* with Ok and an empty accumulator; the zero-segment path issues no query.
C3_NoMatchIsEmptySuccess ==
    LET unclassified == pc # "start" /\ kind = None
        zero_segments == IsPath /\ Unwrap(Unwrap(kind).path).segments = <<>>
        unresolved ==
            \E i \in DOMAIN queries :
                /\ queries[i].q = "resolve_path"
                /\ queries[i].reply.status = "Ok"
                /\ Unwrap(queries[i].reply.value) = None
        not_a_module ==
            \E i \in DOMAIN queries :
                /\ queries[i].q = "def_id.resolve"
                /\ queries[i].reply.status = "Ok"
                /\ Unwrap(queries[i].reply.value).tag # "Module"
    IN /\ (unclassified \/ zero_segments \/ unresolved \/ not_a_module) =>
            (pc = "done" /\ result = "Ok" /\ acc = <<>>)
       /\ zero_segments => queries = <<>>

C3_Witness ==
    /\ pc = "done"
    /\ Len(queries) = 2
    /\ queries[2].q = "def_id.resolve"
    /\ queries[2].reply = Ok(DefFunction)
    /\ result = "Ok"

\* The names bound in the scope chain, and those bound in two scopes or more.
BoundNames ==
    { n \in Names : \E i \in DOMAIN Unwrap(scopes).chain :
                        \E j \in DOMAIN Unwrap(scopes).chain[i] :
                            Unwrap(scopes).chain[i][j] = n }

ReboundNames ==
    { n \in Names :
        Cardinality({ i \in DOMAIN Unwrap(scopes).chain :
                        \E j \in DOMAIN Unwrap(scopes).chain[i] :
                            Unwrap(scopes).chain[i][j] = n }) >= 2 }

FirstIndex(s, v) == Min({ i \in DOMAIN s : s[i] = v })

\* C4 as stated: a name bound in an outer scope and again in an inner one
\* is the label of exactly one candidate of the request.
C4_OneCandidateForReboundName ==
    scopes # None => \A n \in ReboundNames : Count(acc, n) = 1

\* C4 as amended: every name bound in the scope chain is the label of
\* exactly one of the candidates the call makes from the function's scopes
\* (a module entry of that name is a further candidate); the names come in
\* the order of their first occurrence in the chain, innermost scope first.
C4_OneCandidatePerBoundName ==
    scopes # None =>
        /\ \A n \in BoundNames : Count(LocalPart, n) = 1
        /\ \A n, m \in BoundNames :
              FirstIndex(flat_map(Unwrap(scopes).chain), n)
                < FirstIndex(flat_map(Unwrap(scopes).chain), m)
              => FirstIndex(Labels(LocalPart), n) < FirstIndex(Labels(LocalPart), m)

C4_Witness ==
    /\ scopes # None
    /\ Unwrap(scopes).chain = << <<"x">>, <<"y", "x">> >>
    /\ pc = "done"
    /\ result = "Ok"
    /\ Labels(SubSeq(LocalPart, 1, 2)) = <<"x", "y">>
    /\ Count(LocalPart, "x") = 1

\* C5: the LocalRef branch emits the module entries in order,
\* leaving out exactly those with an import whose range holds the range of
\* the reference.
C5_HiddenIffImportAroundReference ==
    (pc = "done" /\ result = "Ok" /\ IsLocalRef) =>
        Labels(ModulePart) =
            EntryNames(SelectSeq(ScopeReturned,
                LAMBDA e : ~(e.import # None /\ Within(tree[1].range, Unwrap(e.import)))))

\* C6: for a path of one segment or more, resolve_path is asked once, for
\* the path without its last segment and never for the whole path, and the
\* accumulator holds one item per entry of the module the prefix resolved
\* to, labelled with the entry's name, and nothing else.
C6_PathTruncation ==
    (IsPath /\ Unwrap(Unwrap(kind).path).segments # <<>>) =>
        LET p == Unwrap(Unwrap(kind).path)
            asked == { i \in DOMAIN queries : queries[i].q = "resolve_path" }
            enumerated == pc = "done" /\ result = "Ok" /\ Len(queries) = 3
        IN /\ Cardinality(asked) = 1
           /\ \A i \in asked :
                 /\ queries[i].arg =
                        [kind |-> p.kind,
                         segments |-> SubSeq(p.segments, 1, Len(p.segments) - 1)]
                 /\ queries[i].arg # p
           /\ IF enumerated
              THEN Labels(acc) = EntryNames(ScopeReturned)
              ELSE acc = <<>>

C6_Witness ==
    /\ IsPath
    /\ Unwrap(Unwrap(kind).path).segments = <<"a", "b", "c">>
    /\ pc = "done"
    /\ result = "Ok"
    /\ Len(queries) = 3
    /\ queries[1].arg.segments = <<"a", "b">>
    /\ Len(acc) = 2

\* The outermost ancestor with the range of the reference.
OutermostSameRange ==
    CHOOSE i \in DOMAIN tree :
        /\ \A j \in 1..i : tree[j].range = tree[1].range
        /\ i = Len(tree) \/ tree[i + 1].range # tree[1].range

AtItemPosition ==
    /\ OutermostSameRange < Len(tree)
    /\ tree[OutermostSameRange + 1].kind \in {"SOURCE_FILE", "ITEM_LIST"}

UnderPathSegment == Len(tree) >= 2 /\ tree[2].kind = "PATH_SEGMENT"

\* C7: the classification is BareIdentInMod at an item position; else Path,
\* with the path reconstructed, under a path segment whose path is not a
\* single plain identifier; else LocalRef under a path segment whose path
\* has no qualifier; else None.
C7_Classification ==
    pc # "start" =>
        IF AtItemPosition
        THEN kind = Some([tag |-> "BareIdentInMod", enclosing_fn |-> None, path |-> None])
        ELSE IF /\ UnderPathSegment
                /\ path # None
                /\ ~(Unwrap(path).kind = "Plain" /\ Len(Unwrap(path).segments) = 1)
        THEN IsPath /\ Unwrap(kind).path = path
        ELSE IF UnderPathSegment /\ ~qualifier
        THEN IsLocalRef
        ELSE kind = None

C7_Witness ==
    /\ IsPath
    /\ ~AtItemPosition
    /\ Unwrap(Unwrap(kind).path).segments = <<"a", "b">>
    /\ qualifier

\* C8 as stated: enclosing_fn of a LocalRef is the nearest function
\* definition among the ancestors when there is one, and absent otherwise.
C8_NearestFnAncestor ==
    IsLocalRef =>
        Unwrap(kind).enclosing_fn =
            (IF FnDefAncestors # {} THEN Some(Min(FnDefAncestors)) ELSE None)

\* C8 as amended: enclosing_fn of a LocalRef is the nearest function
\* definition among the ancestors when there is one and no module lies
\* between the reference and it, and absent otherwise.
C8_NearestFnAncestorInModule ==
    IsLocalRef =>
        Unwrap(kind).enclosing_fn =
            (IF /\ FnDefAncestors # {}
                /\ \A j \in 1..Min(FnDefAncestors) : tree[j].kind # "MODULE"
             THEN Some(Min(FnDefAncestors))
             ELSE None)

C8_Witness ==
    /\ IsLocalRef
    /\ FnDefAncestors # {}
    /\ Unwrap(kind).enclosing_fn = None

\* Some loop among the ancestors, before any function definition or
\* closure, has a body that holds the reference.
InLoopBody ==
    \E i \in DOMAIN tree :
        /\ tree[i].kind \in {"FOR_EXPR", "WHILE_EXPR", "LOOP_EXPR"}
        /\ tree[i].body # None
        /\ Within(tree[1].range, Unwrap(tree[i].body))
        /\ \A j \in 1..i : tree[j].kind \notin {"FN_DEF", "LAMBDA_EXPR"}

\* C9: in a LocalRef request with an enclosing function, continue and break
\* are each offered once when a loop body holds the reference with no
\* function or closure boundary in between, and not at all otherwise.
C9_LoopKeywords ==
    InFunction =>
        /\ Count(acc, "continue") = (IF InLoopBody THEN 1 ELSE 0)
        /\ Count(acc, "break") = (IF InLoopBody THEN 1 ELSE 0)

C9_Witness ==
    /\ InFunction
    /\ Cardinality({ i \in DOMAIN tree : tree[i].kind \in {"WHILE_EXPR", "LOOP_EXPR"} }) = 2
    /\ Count(acc, "continue") = 1
    /\ Count(acc, "break") = 1

ExprStmtAncestors == { i \in DOMAIN tree : tree[i].kind = "EXPR_STMT" }

IsStatement ==
    /\ ExprStmtAncestors # {}
    /\ tree[Min(ExprStmtAncestors)].range = tree[1].range

\* C10: a LocalRef request with an enclosing function offers return once,
\* with the snippet that statement position and the function's return type
\* select.
C10_ReturnSnippet ==
    InFunction =>
        /\ Count(acc, "return") = 1
        /\ \A i \in DOMAIN acc :
              acc[i].label = "return" =>
                  acc[i].snippet =
                      Some(CASE IsStatement /\ FnDef.ret_type -> "return $0;"
                             [] IsStatement /\ ~FnDef.ret_type -> "return;"
                             [] ~IsStatement /\ FnDef.ret_type -> "return $0"
                             [] OTHER -> "return")

C10_Witness ==
    /\ InFunction
    /\ IsStatement
    /\ ~FnDef.ret_type
    /\ \E i \in DOMAIN acc : acc[i] = keyword("return", "return;")
====
